---- MODULE Spec2Model ----
(***************************************************************************)
(* Model of src/compute.py: Main._evaluate_and_plot (the per-sample curve  *)
(* processor), Plot.__init__ and Plot.mean_and_std (the curve aggregator). *)
(*                                                                         *)
(* Numbers.  A real number of the program is modelled exactly: a finite    *)
(* value is a normalised fraction <<n, d>> with d > 0, not-a-number is     *)
(* <<0, 0>> and the infinities are <<1, 0>> and <<-1, 0>>.  A value of the *)
(* form q -/+ sqrt(v) with v not a perfect square (a standard deviation)    *)
(* is the 5-tuple <<qn, qd, s, vn, vd>>.  Rounding of IEEE doubles is not  *)
(* modelled.                                                               *)
(*                                                                         *)
(* Arrays are sequences; Python index i is index i + 1 here.               *)
(***************************************************************************)
EXTENDS Integers, Sequences, FiniteSets, TLC

\* ---- bounds of the model ------------------------------------------------
\* longest sample array (pixels per image) in the evaluate specification
MaxLen == 4
\* longest sample array in the specification of concurrent evaluate calls
ParLen == 2
\* most curves handed to one mean_and_std call
MaxCurves == 2
\* largest integer point count handed to mean_and_std
MaxGrid == 3

\* ---- exact arithmetic ---------------------------------------------------
Abs(n) == IF n < 0 THEN -n ELSE n

Sign(n) == IF n < 0 THEN -1 ELSE IF n > 0 THEN 1 ELSE 0

RECURSIVE GCD(_, _)
GCD(a, b) == IF b = 0 THEN a ELSE GCD(b, a % b)

\* the fraction n / d in lowest terms; n / 0 is nan or an infinity
Norm(n, d) ==
    IF d = 0 THEN <<Sign(n), 0>>
    ELSE LET g == GCD(Abs(n), Abs(d))
             s == Sign(d)
         IN  <<(s * n) \div g, (s * d) \div g>>

NaN == <<0, 0>>
Zero == <<0, 1>>
One == <<1, 1>>
Half == <<1, 2>>
Two == <<2, 1>>

IsFinite(x) == x[2] # 0
IsNaN(x) == x = NaN

RAdd(x, y) ==
    IF IsFinite(x) /\ IsFinite(y)
    THEN Norm(x[1] * y[2] + y[1] * x[2], x[2] * y[2]) ELSE NaN

RSub(x, y) ==
    IF IsFinite(x) /\ IsFinite(y)
    THEN Norm(x[1] * y[2] - y[1] * x[2], x[2] * y[2]) ELSE NaN

RMul(x, y) ==
    IF IsFinite(x) /\ IsFinite(y) THEN Norm(x[1] * y[1], x[2] * y[2]) ELSE NaN

\* floating-point division: 0/0 is nan, x/0 is an infinity, nothing raises
RDiv(x, y) ==
    IF IsFinite(x) /\ IsFinite(y) THEN Norm(x[1] * y[2], x[2] * y[1]) ELSE NaN

\* comparisons are false when an operand is nan
RLt(x, y) == IsFinite(x) /\ IsFinite(y) /\ x[1] * y[2] < y[1] * x[2]
RLe(x, y) == IsFinite(x) /\ IsFinite(y) /\ x[1] * y[2] <= y[1] * x[2]

Rat(n) == <<n, 1>>

Range(s) == {s[i] : i \in DOMAIN s}

\* the sequence s with every element evaluated (an array, not a lazy mapping)
Array(s) == SubSeq(s, 1, Len(s))

RECURSIVE SumSeq(_)
SumSeq(s) == IF s = <<>> THEN Zero ELSE RAdd(s[1], SumSeq(Tail(s)))

\* the largest / smallest element of a non-empty set of finite values
MaxOf(S) == CHOOSE x \in S : \A y \in S : RLe(y, x)
MinOf(S) == CHOOSE x \in S : \A y \in S : RLe(x, y)

\* a set of finite values as a strictly decreasing sequence
RECURSIVE SortDesc(_)
SortDesc(S) == IF S = {} THEN <<>> ELSE <<MaxOf(S)>> \o SortDesc(S \ {MaxOf(S)})

\* a set of integers as a strictly increasing sequence
RECURSIVE SortInts(_)
SortInts(S) ==
    IF S = {} THEN <<>>
    ELSE LET m == CHOOSE x \in S : \A y \in S : x <= y
         IN  <<m>> \o SortInts(S \ {m})

\* ---- the caller's inputs -------------------------------------------------
\* the values a pixel of the probabilistic prediction takes in the model: of
\* the 256 values image / 255 (line 148) the lowest, the highest, and the
\* value the repair of line 159 writes
PredValues == {Zero, Half, One}

SeqsOf(S, n) == [1..n -> S]

\* np.any: some element is non-zero / true
AnyNonZero(a) == \E i \in DOMAIN a : a[i] # Zero
AnyTrue(a) == \E i \in DOMAIN a : a[i]

\* ---- edge-case repair (lines 156-162) ------------------------------------
\* `own` is <<>> while the local name still refers to the caller's array and
\* <<copy>> once the local name is bound to a private copy.
RepairPredInPlace(p) ==
    IF ~AnyNonZero(p) THEN [caller |-> [p EXCEPT ![1] = Half], own |-> <<>>]
    ELSE [caller |-> p, own |-> <<>>]

RepairPredSkipped(p) == [caller |-> p, own |-> <<>>]

RepairPred(p) ==
    IF ~AnyNonZero(p) THEN [caller |-> p, own |-> <<[p EXCEPT ![1] = Half]>>]
    ELSE [caller |-> p, own |-> <<>>]

RepairBin(b) ==
    IF ~AnyTrue(b) THEN [caller |-> b, own |-> <<[b EXCEPT ![1] = TRUE]>>]
    ELSE [caller |-> b, own |-> <<>>]

\* the array a local name refers to
Deref(own, caller) == IF own = <<>> THEN caller ELSE own[1]

\* ---- skmetrics.precision_recall_curve (line 166) -------------------------
\* The library routine as the source uses it: the release whose recall is
\* tps / tps[-1] (nan without positives, which line 170 normalises) and whose
\* curve stops at the first threshold of full recall.
CountGE(y, score, s, label) ==
    Cardinality({i \in DOMAIN score : y[i] = label /\ RLe(s, score[i])})

\* _binary_clf_curve: one point per distinct score, scores decreasing
BinaryClfCurve(y, score) ==
    LET th == SortDesc(Range(score))
    IN  [tps |-> [j \in 1..Len(th) |-> CountGE(y, score, th[j], TRUE)],
         fps |-> [j \in 1..Len(th) |-> CountGE(y, score, th[j], FALSE)],
         thresholds |-> th]

PrecisionRecallCurve(y, score) ==
    LET c == BinaryClfCurve(y, score)
        k == Len(c.thresholds)
        prec(j) == LET q == RDiv(Rat(c.tps[j]), Rat(c.tps[j] + c.fps[j]))
                   IN  IF IsNaN(q) THEN Zero ELSE q
        rec(j) == RDiv(Rat(c.tps[j]), Rat(c.tps[k]))
        \* tps.searchsorted(tps[-1]): first point of full recall
        last == CHOOSE j \in 1..k :
                    /\ c.tps[j] >= c.tps[k]
                    /\ \A h \in 1..(j - 1) : c.tps[h] < c.tps[k]
        \* slice(last_ind, None, -1): points last .. 1
        rev(i) == last + 1 - i
    IN  [precisions |-> [i \in 1..(last + 1) |->
                            IF i <= last THEN prec(rev(i)) ELSE One],
         recalls |-> [i \in 1..(last + 1) |->
                            IF i <= last THEN rec(rev(i)) ELSE Zero],
         thresholds |-> [i \in 1..last |-> c.thresholds[rev(i)]]]

\* lines 164-170: the curve, the appended threshold 1.0, nan recalls set to 0
RawCurveMisaligned(y, score) ==
    LET c == PrecisionRecallCurve(y, score)
    IN  [precisions |-> c.precisions,
         recalls |-> [i \in DOMAIN c.recalls |->
                        IF IsFinite(c.recalls[i]) THEN c.recalls[i] ELSE Zero],
         thresholds |-> <<One>> \o c.thresholds]

RawCurve(y, score) ==
    LET c == PrecisionRecallCurve(y, score)
    IN  [precisions |-> c.precisions,
         recalls |-> [i \in DOMAIN c.recalls |->
                        IF IsFinite(c.recalls[i]) THEN c.recalls[i] ELSE Zero],
         thresholds |-> Append(c.thresholds, One)]

\* ---- duplicate-recall suppression (lines 171-183) ------------------------
\* line 175: the groups of indices sharing a recall value, of size > 1
Duplicates(recalls) ==
    {g \in {{i \in DOMAIN recalls : recalls[i] = recalls[h]} : h \in DOMAIN recalls} :
        Cardinality(g) > 1}

\* the indices of a group whose precision is the group's highest
MinPrecision(g, precisions) ==
    {i \in g : \A h \in g : RLe(precisions[i], precisions[h])}

MaxPrecision(g, precisions) ==
    {i \in g : \A h \in g : RLe(precisions[h], precisions[i])}

\* lines 178-180: from each group everything but the last element of the group
\* sorted by precision.  sorted() is stable, so among equal highest precisions
\* the survivor is the one np.argsort placed last; the default argsort (an
\* unstable quicksort) leaves that order open, hence a set of choices.
ToDelete(recalls, precisions) ==
    {T \in SUBSET (UNION Duplicates(recalls)) :
        \A g \in Duplicates(recalls) :
            /\ Cardinality(g \ T) = 1
            /\ (g \ T) \subseteq MaxPrecision(g, precisions)}

\* np.delete(a, to_delete)
RECURSIVE Delete(_, _)
Delete(a, T) ==
    IF a = <<>> THEN <<>>
    ELSE LET n == Len(a)
             front == Delete(SubSeq(a, 1, n - 1), T)
         IN  IF n \in T THEN front ELSE Append(front, a[n])

NoDedup(c, T) == c

Dedup(c, T) ==
    [precisions |-> Delete(c.precisions, T),
     recalls |-> Delete(c.recalls, T),
     thresholds |-> Delete(c.thresholds, T)]

\* ---- best F1 (lines 184-190) ---------------------------------------------
F1(p, r) == RDiv(RMul(Two, RMul(p, r)), RAdd(p, r))

F1Scores(precisions, recalls) ==
    [i \in DOMAIN precisions |-> F1(precisions[i], recalls[i])]

\* numpy argmax: the first nan if there is one, else the first maximum
ArgMaxLast(a) ==
    CHOOSE i \in DOMAIN a :
        /\ \A h \in DOMAIN a : RLe(a[h], a[i])
        /\ \A h \in DOMAIN a : h > i => RLt(a[h], a[i])

ArgMax(a) ==
    IF \E i \in DOMAIN a : IsNaN(a[i])
    THEN CHOOSE i \in DOMAIN a : IsNaN(a[i]) /\ \A h \in 1..(i - 1) : ~IsNaN(a[h])
    ELSE CHOOSE i \in DOMAIN a :
            /\ \A h \in DOMAIN a : RLe(a[h], a[i])
            /\ \A h \in 1..(i - 1) : RLt(a[h], a[i])

\* pred >= thresholds[idx]
Binarise(score, t) == [i \in DOMAIN score |-> RLe(t, score[i])]

\* ---- metrics of evaluation.segmentation ----------------------------------
CountBoth(a, b) == Cardinality({i \in DOMAIN a : a[i] /\ b[i]})
CountEither(a, b) == Cardinality({i \in DOMAIN a : a[i] \/ b[i]})
CountTrue(a) == Cardinality({i \in DOMAIN a : a[i]})

IoU(y, mask) == RDiv(Rat(CountBoth(y, mask)), Rat(CountEither(y, mask)))
Precision(y, mask) == RDiv(Rat(CountBoth(y, mask)), Rat(CountTrue(mask)))
Recall(y, mask) == RDiv(Rat(CountBoth(y, mask)), Rat(CountTrue(y)))

\* area under the curve by the trapezoid rule, along the recall axis
RECURSIVE AUC(_, _)
AUC(precisions, recalls) ==
    IF Len(recalls) < 2 THEN Zero
    ELSE RAdd(RMul(RSub(recalls[1], recalls[2]),
                   RMul(Half, RAdd(precisions[1], precisions[2]))),
              AUC(Tail(precisions), Tail(recalls)))

\* running mean of a metric: update() and last()
Fresh == [count |-> 0, mean |-> Zero, last |-> NaN]

Update(acc, value) ==
    [count |-> acc.count + 1,
     mean |-> RAdd(acc.mean, RDiv(RSub(value, acc.mean), Rat(acc.count + 1))),
     last |-> value]

\* ---- Plot (lines 237-253) ------------------------------------------------
\* an optional argument is <<>> (None) or <<value>>
None == <<>>
Some(x) == <<x>>

\* 2 * precision * recall / (precision + recall) of one point; for a precision
\* q -/+ sqrt(v) the quotient is left unevaluated as the 7-tuple precision \o recall
F1Point(p, r) == IF Len(p) = 2 THEN F1(p, r) ELSE p \o r

PlotInit(recall, precision, threshold, f1, f1_point, bin_point) ==
    LET single == Len(recall) < 2
        truthy == recall[1] # Zero
    IN  [recall |-> IF ~single THEN recall
                    ELSE IF truthy THEN <<Zero, recall[1]>> ELSE <<Zero, One>>,
         precision |-> IF ~single THEN precision
                       ELSE IF truthy THEN <<Zero, precision[1]>>
                       ELSE <<precision[1], Zero>>,
         threshold |-> threshold,
         f1 |-> IF f1 = None
                THEN [i \in DOMAIN recall |-> F1Point(precision[i], recall[i])]
                ELSE f1[1],
         f1_point |-> f1_point,
         bin_point |-> bin_point]

\* ---- Plot.mean_and_std (lines 256-283) -----------------------------------
\* np.linspace(0, 1, n)
Linspace(n) == Array([i \in 1..n |-> IF n = 1 THEN Zero ELSE Norm(i - 1, n - 1)])

\* lines 258-261: an integer point count becomes a grid, an iterable is the grid
Grid(interp) == IF interp.kind = "count" THEN Linspace(interp.n) ELSE interp.points

\* a set of finite values as a strictly increasing sequence
RECURSIVE SortAsc(_)
SortAsc(S) ==
    IF S = {} THEN <<>>
    ELSE LET m == MinOf(S) IN <<m>> \o SortAsc(S \ {m})

\* interp1d(x, y): the nodes sorted by x (assume_sorted = False)
Nodes(x, y) ==
    LET xs == SortAsc(Range(x))
    IN  [x |-> xs,
         y |-> Array([i \in DOMAIN xs |-> y[CHOOSE j \in DOMAIN x : x[j] = xs[i]]])]

\* bounds_error: a point below the first or above the last node raises
InDomainClamped(nodes, g) == TRUE

InDomain(nodes, g) == RLe(nodes.x[1], g) /\ RLe(g, nodes.x[Len(nodes.x)])

\* linear interpolation between the two nodes around g
Interp1d(nodes, g) ==
    LET xs == nodes.x
        ys == nodes.y
        n == Len(xs)
        above == {i \in 2..n : RLe(g, xs[i])}
        hi == IF above = {} THEN n ELSE CHOOSE i \in above : \A h \in above : i <= h
        lo == hi - 1
        slope == RDiv(RSub(ys[hi], ys[lo]), RSub(xs[hi], xs[lo]))
    IN  RAdd(ys[lo], RMul(slope, RSub(g, xs[lo])))

\* precision.mean(0) of one column
MeanUndivided(col) == SumSeq(col)

Mean(col) == RDiv(SumSeq(col), Rat(Len(col)))

VarianceSample(col) ==
    LET m == Mean(col)
        d == Array([i \in DOMAIN col |-> RSub(col[i], m)])
    IN  RDiv(SumSeq([i \in DOMAIN col |-> RMul(d[i], d[i])]), Rat(Len(col) - 1))

\* the square of precision.std(0) of one column: np.std divides by N
Variance(col) ==
    LET m == Mean(col)
        d == Array([i \in DOMAIN col |-> RSub(col[i], m)])
    IN  RDiv(SumSeq([i \in DOMAIN col |-> RMul(d[i], d[i])]), Rat(Len(col)))

IsSquare(n) == \E k \in 0..n : k * k = n
ISqrt(n) == CHOOSE k \in 0..n : k * k = n
HasRoot(v) == IsFinite(v) /\ v[1] >= 0 /\ IsSquare(v[1]) /\ IsSquare(v[2])
Root(v) == <<ISqrt(v[1]), ISqrt(v[2])>>

\* m + s * sqrt(v), s = -1 or 1: mean - std and mean + std
PlusRoot(m, s, v) ==
    IF ~IsFinite(m) \/ ~IsFinite(v) THEN NaN
    ELSE IF HasRoot(v) THEN RAdd(m, RMul(Rat(s), Root(v)))
    ELSE <<m[1], m[2], s, v[1], v[2]>>

\* F of evaluation.segmentation, called as f1(precision = p, recall = r)
FScore(p, r) == F1(p, r)

MeanAndStd(plots, interp) ==
    LET grid == Grid(interp)
        G == DOMAIN grid
        K == DOMAIN plots
        nodes == Array([k \in K |-> Nodes(plots[k].recall, plots[k].precision)])
        ok == \A k \in K : \A g \in G : InDomain(nodes[k], grid[g])
        col == Array([g \in G |-> Array([k \in K |-> Interp1d(nodes[k], grid[g])])])
        mean == Array([g \in G |-> Mean(col[g])])
        var == Array([g \in G |-> Variance(col[g])])
        i == ArgMax([g \in G |-> FScore(mean[g], grid[g])])
        bin == <<Mean([k \in K |-> plots[k].bin_point[1][1]]),
                 Mean([k \in K |-> plots[k].bin_point[1][2]])>>
    IN  IF ~ok THEN [error |-> "ValueError"]
        ELSE [error |-> "",
              mean |-> PlotInit(grid, mean, None, None,
                                Some(<<grid[i], mean[i]>>), Some(bin)),
              lower |-> PlotInit(grid, Array([g \in G |-> PlusRoot(mean[g], -1, var[g])]),
                                 None, None, None, None),
              upper |-> PlotInit(grid, Array([g \in G |-> PlusRoot(mean[g], 1, var[g])]),
                                 None, None, None, None)]

\* ---- the steps of _evaluate_and_plot as functions of its locals ----------
\* lines 153-154: the two evaluation records, nothing observed yet
NewPredEval ==
    [f1score |-> Fresh, precision |-> Fresh, recall |-> Fresh, iou |-> Fresh,
     auc |-> Fresh]

NewBinEval == [precision |-> Fresh, recall |-> Fresh, iou |-> Fresh]

\* lines 184-193: f1scores, idx and the updated probabilistic record, from the
\* deduplicated curve c, the (repaired) prediction, the ground truth
Best(c, score, y, pe) ==
    LET f == F1Scores(c.precisions, c.recalls)
        i == ArgMax(f)
    IN  [f1scores |-> f,
         idx |-> i,
         pred_eval |->
            [f1score |-> Update(pe.f1score, f[i]),
             precision |-> Update(pe.precision, c.precisions[i]),
             recall |-> Update(pe.recall, c.recalls[i]),
             iou |-> Update(pe.iou, IoU(y, Binarise(score, c.thresholds[i]))),
             auc |-> Update(pe.auc, AUC(c.precisions, c.recalls))]]

\* lines 195-206: the updated binarised record and the Plot
Finished(c, f, i, b, y, be) ==
    LET e == [precision |-> Update(be.precision, Precision(y, b)),
              recall |-> Update(be.recall, Recall(y, b)),
              iou |-> Update(be.iou, IoU(y, b))]
    IN  [bin_eval |-> e,
         plot |-> PlotInit(c.recalls, c.precisions, Some(c.thresholds), Some(f),
                           Some(<<c.recalls[i], c.precisions[i]>>),
                           Some(<<e.recall.last, e.precision.last>>))]

\* lines 152-208 run without interruption: the triples the call may return
Evaluate(p, b, y) ==
    LET score == Deref(RepairPred(p).own, RepairPred(p).caller)
        mask == Deref(RepairBin(b).own, RepairBin(b).caller)
        raw == RawCurve(y, score)
    IN  {LET c == Dedup(raw, T)
             best == Best(c, score, y, NewPredEval)
             fin == Finished(c, best.f1scores, best.idx, mask, y, NewBinEval)
         IN  <<best.pred_eval, fin.bin_eval, fin.plot>> :
            T \in ToDelete(raw.recalls, raw.precisions)}

\* ---- state ---------------------------------------------------------------
\* the workers joblib runs _evaluate_and_plot on (line 101)
Workers == {"w1", "w2"}

VARIABLES
    pred,       \* the caller's probabilistic prediction array
    bin_,       \* the caller's binarised prediction array
    gt,         \* the caller's ground truth array
    pc,         \* per worker: the next step of its _evaluate_and_plot call
    lpred,      \* per worker: what the local name pred is bound to
    lbin,       \* per worker: what the local name bin_ is bound to
    curve,      \* per worker: the locals precisions, recalls, thresholds
    f1scores,   \* per worker: the local f1scores
    idx,        \* per worker: the local idx
    pred_eval,  \* per worker: the probabilistic evaluation record
    bin_eval,   \* per worker: the binarised evaluation record
    plot,       \* per worker: the Plot the call returns
    plots,      \* the list of Plots handed to mean_and_std
    interp,     \* the interp argument of the mean_and_std call; <<>> before it
    agg         \* what mean_and_std returned; <<>> before the call

vars == <<pred, bin_, gt, pc, lpred, lbin, curve, f1scores, idx, pred_eval,
          bin_eval, plot, plots, interp, agg>>

Unset == [w \in Workers |-> <<>>]

\* the explicit grids and point counts handed to mean_and_std
Interps ==
    {[kind |-> "count", n |-> n] : n \in 1..MaxGrid}
    \cup {[kind |-> "grid", points |-> <<Zero, <<3, 2>>>>]}

InitLocals ==
    /\ lpred = Unset /\ lbin = Unset /\ curve = Unset /\ f1scores = Unset
    /\ idx = [w \in Workers |-> 0]
    /\ pred_eval = Unset /\ bin_eval = Unset /\ plot = Unset
    /\ plots = <<>> /\ interp = <<>> /\ agg = <<>>

\* one _evaluate_and_plot call on one sample; the binarised prediction is
\* empty or the ground truth itself
Init ==
    /\ \E n \in 1..MaxLen :
        /\ pred \in SeqsOf(PredValues, n)
        /\ gt \in SeqsOf(BOOLEAN, n)
        /\ bin_ \in {[i \in 1..n |-> FALSE], gt}
    /\ pc = [w \in Workers |-> IF w = "w1" THEN "repair" ELSE "off"]
    /\ InitLocals

\* two concurrent _evaluate_and_plot calls on the same three arrays
InitPar ==
    /\ \E n \in 1..ParLen :
        /\ pred \in SeqsOf(PredValues, n)
        /\ bin_ \in SeqsOf(BOOLEAN, n)
        /\ gt \in SeqsOf(BOOLEAN, n)
    /\ pc = [w \in Workers |-> "repair"]
    /\ InitLocals

\* lines 153-162
Repair(w) ==
    /\ pc[w] = "repair"
    /\ LET p == RepairPred(pred)
           b == RepairBin(bin_)
       IN  /\ pred' = p.caller
           /\ bin_' = b.caller
           /\ lpred' = [lpred EXCEPT ![w] = p.own]
           /\ lbin' = [lbin EXCEPT ![w] = b.own]
    /\ pred_eval' = [pred_eval EXCEPT ![w] = NewPredEval]
    /\ bin_eval' = [bin_eval EXCEPT ![w] = NewBinEval]
    /\ pc' = [pc EXCEPT ![w] = "curve"]
    /\ UNCHANGED <<gt, curve, f1scores, idx, plot, plots, interp, agg>>

\* lines 164-170
Curve(w) ==
    /\ pc[w] = "curve"
    /\ curve' = [curve EXCEPT ![w] = RawCurve(gt, Deref(lpred[w], pred))]
    /\ pc' = [pc EXCEPT ![w] = "dedup"]
    /\ UNCHANGED <<pred, bin_, gt, lpred, lbin, f1scores, idx, pred_eval,
                   bin_eval, plot, plots, interp, agg>>

\* lines 171-183
Deduplicate(w) ==
    /\ pc[w] = "dedup"
    /\ \E T \in ToDelete(curve[w].recalls, curve[w].precisions) :
          curve' = [curve EXCEPT ![w] = Dedup(curve[w], T)]
    /\ pc' = [pc EXCEPT ![w] = "best"]
    /\ UNCHANGED <<pred, bin_, gt, lpred, lbin, f1scores, idx, pred_eval,
                   bin_eval, plot, plots, interp, agg>>

\* lines 184-193
BestF1(w) ==
    /\ pc[w] = "best"
    /\ LET best == Best(curve[w], Deref(lpred[w], pred), gt, pred_eval[w])
       IN  /\ f1scores' = [f1scores EXCEPT ![w] = best.f1scores]
           /\ idx' = [idx EXCEPT ![w] = best.idx]
           /\ pred_eval' = [pred_eval EXCEPT ![w] = best.pred_eval]
    /\ pc' = [pc EXCEPT ![w] = "bin"]
    /\ UNCHANGED <<pred, bin_, gt, lpred, lbin, curve, bin_eval, plot, plots,
                   interp, agg>>

\* lines 195-208
Finish(w) ==
    /\ pc[w] = "bin"
    /\ LET fin == Finished(curve[w], f1scores[w], idx[w], Deref(lbin[w], bin_),
                           gt, bin_eval[w])
       IN  /\ bin_eval' = [bin_eval EXCEPT ![w] = fin.bin_eval]
           /\ plot' = [plot EXCEPT ![w] = fin.plot]
    /\ pc' = [pc EXCEPT ![w] = "done"]
    /\ UNCHANGED <<pred, bin_, gt, lpred, lbin, curve, f1scores, idx, pred_eval,
                   plots, interp, agg>>

\* line 107: the Plots of the finished calls, in the order of the samples
Collect ==
    /\ plots = <<>>
    /\ pc["w1"] = "done"
    /\ pc["w2"] \in {"done", "off"}
    /\ plots' = IF pc["w2"] = "done" THEN <<plot["w1"], plot["w2"]>>
                ELSE <<plot["w1"]>>
    /\ UNCHANGED <<pred, bin_, gt, pc, lpred, lbin, curve, f1scores, idx,
                   pred_eval, bin_eval, plot, interp, agg>>

\* line 108 and lines 256-283
MeanAndStdCall ==
    /\ plots # <<>>
    /\ agg = <<>>
    /\ \E a \in Interps : interp' = a /\ agg' = MeanAndStd(plots, a)
    /\ UNCHANGED <<pred, bin_, gt, pc, lpred, lbin, curve, f1scores, idx,
                   pred_eval, bin_eval, plot, plots>>

Next ==
    \/ \E w \in Workers : Repair(w)
    \/ \E w \in Workers : Curve(w)
    \/ \E w \in Workers : Deduplicate(w)
    \/ \E w \in Workers : BestF1(w)
    \/ \E w \in Workers : Finish(w)
    \/ Collect
    \/ MeanAndStdCall

Spec == Init /\ [][Next]_vars

SpecPar == InitPar /\ [][Next]_vars

\* ---- mean_and_std on Plots the caller constructs -------------------------
RecallInputs == {<<One, Zero>>, <<Half>>}
PrecisionValues == {Zero, Half, One}

InitAgg ==
    /\ pred = <<>> /\ bin_ = <<>> /\ gt = <<>>
    /\ pc = [w \in Workers |-> "off"]
    /\ InitLocals

\* Plot(recall, precision, bin_point = ...), appended to the caller's list
Construct ==
    /\ agg = <<>>
    /\ Len(plots) < MaxCurves
    /\ \E r \in RecallInputs : \E p \in SeqsOf(PrecisionValues, Len(r)) :
          plots' = Append(plots, PlotInit(r, p, None, None, None,
                                          Some(<<Half, One>>)))
    /\ UNCHANGED <<pred, bin_, gt, pc, lpred, lbin, curve, f1scores, idx,
                   pred_eval, bin_eval, plot, interp, agg>>

NextAgg == Construct \/ MeanAndStdCall

SpecAgg == InitAgg /\ [][NextAgg]_vars

\* ---- properties ----------------------------------------------------------
\* the steps of a call after which its curve is the deduplicated one
Deduplicated == {"best", "bin", "done"}
\* the steps of a call after which the best-F1 point is recorded
Recorded == {"bin", "done"}

\* the array the local name pred of worker w refers to
LocalPred(w) == Deref(lpred[w], pred)

\* the curve of worker w before the suppression of duplicate recalls
Undeduplicated(w) == RawCurve(gt, LocalPred(w))

\* C1 as stated: after the duplicate-recall suppression the recall sequence is
\* strictly increasing in array order.
C1_Increasing ==
    \A w \in Workers : pc[w] \in Deduplicated =>
        \A i, j \in DOMAIN curve[w].recalls :
            i < j => RLt(curve[w].recalls[i], curve[w].recalls[j])

\* C1 amended: after the duplicate-recall suppression the recall sequence is
\* strictly decreasing in array order, so no two elements of it are equal.
C1_Decreasing ==
    \A w \in Workers : pc[w] \in Deduplicated =>
        \A i, j \in DOMAIN curve[w].recalls :
            i < j => /\ RLt(curve[w].recalls[j], curve[w].recalls[i])
                     /\ curve[w].recalls[i] # curve[w].recalls[j]

\* a call whose suppression step removed points and left more than one
C1_Witness ==
    /\ pc["w1"] = "best"
    /\ Len(curve["w1"].recalls) >= 3
    /\ Len(Undeduplicated("w1").recalls) > Len(curve["w1"].recalls)

\* f is the F1 score of precision p and recall r: f * (p + r) = 2 * p * r
IsF1(f, p, r) ==
    /\ IsFinite(f)
    /\ RAdd(p, r) # Zero
    /\ RMul(f, RAdd(p, r)) = RMul(Two, RMul(p, r))

\* C2: the selected index maximises F1 = 2PR/(P+R) over the deduplicated curve,
\* it is the lowest index of maximal F1, and the F1, precision and recall
\* recorded in the probabilistic evaluation record are the values at it.
C2_BestF1 ==
    \A w \in Workers : pc[w] \in Recorded =>
        LET c == curve[w]
            f == f1scores[w]
            i == idx[w]
        IN  /\ DOMAIN f = DOMAIN c.recalls
            /\ i \in DOMAIN f
            /\ \A h \in DOMAIN f : IsF1(f[h], c.precisions[h], c.recalls[h])
            /\ \A h \in DOMAIN f : RLe(f[h], f[i])
            /\ \A h \in DOMAIN f : h < i => RLt(f[h], f[i])
            /\ pred_eval[w].f1score.last = f[i]
            /\ pred_eval[w].f1score.mean = f[i]
            /\ pred_eval[w].precision.last = c.precisions[i]
            /\ pred_eval[w].precision.mean = c.precisions[i]
            /\ pred_eval[w].recall.last = c.recalls[i]
            /\ pred_eval[w].recall.mean = c.recalls[i]

\* a recorded best point where a later index has the same, maximal F1
C2_Witness ==
    /\ pc["w1"] = "done"
    /\ \E h \in DOMAIN f1scores["w1"] :
          h > idx["w1"] /\ f1scores["w1"][h] = f1scores["w1"][idx["w1"]]

AllZero(a) == \A i \in DOMAIN a : a[i] = Zero
AllFinite(a) == \A i \in DOMAIN a : IsFinite(a[i])

\* the best-F1 point of a deduplicated curve c: <<F1, precision, recall>>
BestPoint(c) ==
    LET i == CHOOSE i \in DOMAIN c.recalls :
                \A h \in DOMAIN c.recalls :
                    /\ RLe(F1(c.precisions[h], c.recalls[h]),
                           F1(c.precisions[i], c.recalls[i]))
                    /\ h < i => RLt(F1(c.precisions[h], c.recalls[h]),
                                    F1(c.precisions[i], c.recalls[i]))
    IN  <<F1(c.precisions[i], c.recalls[i]), c.precisions[i], c.recalls[i]>>

EqualLengths(q) ==
    /\ Len(q.recall) >= 2
    /\ Len(q.precision) = Len(q.recall)
    /\ Len(q.f1) = Len(q.recall)
    /\ q.threshold # None => Len(q.threshold[1]) = Len(q.recall)

C8_EqualLengths ==
    /\ \A w \in Workers : pc[w] = "done" => EqualLengths(plot[w])
    /\ (agg # <<>> /\ agg.error = "") =>
          /\ EqualLengths(agg.mean)
          /\ EqualLengths(agg.lower)
          /\ EqualLengths(agg.upper)

\* the indices of curve c0 that share the recall of index i
Group(c0, i) == {h \in DOMAIN c0.recalls : c0.recalls[h] = c0.recalls[i]}

\* K is what C9 lets survive of curve c0: of every group of equal recall one
\* index, of the group's highest precision, the lowest such index
Survivors(c0, K) ==
    \A i \in DOMAIN c0.recalls :
        LET g == Group(c0, i)
            top == {h \in g : \A l \in g : RLe(c0.precisions[l], c0.precisions[h])}
        IN  /\ Cardinality(g \cap K) = 1
            /\ (g \cap K) \subseteq top
            /\ \A h \in top : \A k \in g \cap K : k <= h

\* curve c1 is curve c0 cut down to the indices K, the three arrays together
CutTo(c0, c1, K) ==
    LET keep == SortInts(K)
    IN  /\ c1.recalls = [i \in DOMAIN keep |-> c0.recalls[keep[i]]]
        /\ c1.precisions = [i \in DOMAIN keep |-> c0.precisions[keep[i]]]
        /\ c1.thresholds = [i \in DOMAIN keep |-> c0.thresholds[keep[i]]]

\* C9: the suppression step keeps of each group of points of equal recall
\* exactly one point, of the highest precision of the group (the first of them
\* in array order), and removes the precision, recall and threshold of every
\* other point of the group together.
C9_Suppression ==
    [][\A w \in Workers :
          (pc[w] = "dedup" /\ pc'[w] = "best") =>
              \E K \in SUBSET (DOMAIN curve[w].recalls) :
                  /\ Survivors(curve[w], K)
                  /\ CutTo(curve[w], curve'[w], K)]_vars

\* a deduplicated curve that lost points of a group of positive recall
C9_Witness ==
    /\ pc["w1"] = "best"
    /\ \E i, h \in DOMAIN Undeduplicated("w1").recalls :
          /\ i # h
          /\ Undeduplicated("w1").recalls[i] = Undeduplicated("w1").recalls[h]
          /\ Undeduplicated("w1").recalls[i] # Zero
          /\ Undeduplicated("w1").recalls[i] # One

\* no group of equal recall has two points of the group's highest precision
C9_NoTie ==
    \A w \in Workers : pc[w] = "dedup" =>
        \A g \in Duplicates(curve[w].recalls) :
            Cardinality(MaxPrecision(g, curve[w].precisions)) = 1

\* the mask prediction >= t of worker w's (repaired) prediction
MaskAt(w, t) == [i \in DOMAIN LocalPred(w) |-> RLe(t, LocalPred(w)[i])]

\* the mask m has precision p and recall r against the ground truth: p is
\* TP / (TP + FP) and r is TP / (TP + FN), both defined
MaskScores(m, p, r) ==
    LET tp == Cardinality({i \in DOMAIN m : m[i] /\ gt[i]})
        fp == Cardinality({i \in DOMAIN m : m[i] /\ ~gt[i]})
        fn == Cardinality({i \in DOMAIN m : ~m[i] /\ gt[i]})
    IN  /\ tp + fp > 0 /\ p = Norm(tp, tp + fp)
        /\ tp + fn > 0 /\ r = Norm(tp, tp + fn)

\* the mask m has intersection-over-union u with the ground truth (0/0 is nan)
MaskIoU(m, u) ==
    LET both == Cardinality({i \in DOMAIN m : m[i] /\ gt[i]})
        either == Cardinality({i \in DOMAIN m : m[i] \/ gt[i]})
    IN  u = Norm(both, either)

\* C10 as stated: at every index of the deduplicated curve, the endpoint
\* included, binarising the prediction at the stored threshold gives a mask of
\* the stored precision and recall.
C10_EveryIndex ==
    \A w \in Workers : pc[w] \in Recorded =>
        \A i \in DOMAIN curve[w].recalls :
            MaskScores(MaskAt(w, curve[w].thresholds[i]),
                       curve[w].precisions[i], curve[w].recalls[i])

\* C10 amended: at every index of the deduplicated curve but the last (the
\* endpoint of recall 0 and precision 1, whose threshold 1.0 the code appends)
\* binarising the prediction at the stored threshold gives a mask of the stored
\* precision and recall; the selected index is such an index whenever the
\* ground truth has a positive element; the recorded IoU is that of the mask at
\* the selected threshold; and ground truth [1,1,0,0] with prediction
\* [1,0.5,0,0] selects threshold 0.5 with F1 = precision = recall = 1.
C10_ThresholdAligned ==
    \A w \in Workers : pc[w] \in Recorded =>
        LET c == curve[w]
            n == Len(c.recalls)
        IN  /\ Len(c.thresholds) = n
            /\ c.recalls[n] = Zero /\ c.precisions[n] = One /\ c.thresholds[n] = One
            /\ \A i \in 1..(n - 1) :
                  MaskScores(MaskAt(w, c.thresholds[i]), c.precisions[i], c.recalls[i])
            /\ AnyTrue(gt) => idx[w] < n
            /\ MaskIoU(MaskAt(w, c.thresholds[idx[w]]), pred_eval[w].iou.last)
            /\ (gt = <<TRUE, TRUE, FALSE, FALSE>> /\ pred = <<One, Half, Zero, Zero>>) =>
                  /\ c.thresholds[idx[w]] = Half
                  /\ pred_eval[w].f1score.last = One
                  /\ pred_eval[w].precision.last = One
                  /\ pred_eval[w].recall.last = One

\* the recorded point of ground truth [1,1,0,0] and prediction [1,0.5,0,0]
C10_Witness ==
    /\ pc["w1"] = "done"
    /\ gt = <<TRUE, TRUE, FALSE, FALSE>>
    /\ pred = <<One, Half, Zero, Zero>>
    /\ curve["w1"].thresholds = <<Half, One, One>>

\* the set of recall values of a Plot
RecallRange(q) == Range(q.recall)

\* g lies within the observed recall range of Plot q
Observed(q, g) ==
    /\ \E x \in RecallRange(q) : RLe(x, g)
    /\ \E x \in RecallRange(q) : RLe(g, x)

\* C4: the recall sequence of every Plot evaluate returns has minimum 0 and
\* maximum 1; mean_and_std over such Plots raises no out-of-domain error for a
\* grid within [0, 1]; and it raises, instead of extrapolating, exactly when a
\* grid point lies outside the observed recall range of an input Plot.
C4_Domain ==
    /\ \A w \in Workers : pc[w] = "done" =>
          /\ \A x \in RecallRange(plot[w]) : RLe(Zero, x) /\ RLe(x, One)
          /\ Zero \in RecallRange(plot[w])
          /\ One \in RecallRange(plot[w])
    /\ agg # <<>> =>
          /\ (\A g \in Range(Grid(interp)) : RLe(Zero, g) /\ RLe(g, One))
                => agg.error = ""
          /\ agg.error = "ValueError"
                <=> \E k \in DOMAIN plots : \E g \in Range(Grid(interp)) :
                        ~Observed(plots[k], g)

\* mean_and_std returned curves for the repaired one-point curve of a ground
\* truth without positives, on a grid of three points
C4_Witness ==
    /\ agg # <<>>
    /\ agg.error = ""
    /\ Len(curve["w1"].recalls) = 1
    /\ Len(Grid(interp)) = 3

\* mean_and_std raised on a grid point outside the recall range of a Plot that
\* evaluate returned
C4_Raised ==
    /\ agg # <<>>
    /\ agg.error = "ValueError"
    /\ pc["w1"] = "done"

\* the precision of Plot q linearly interpolated at recall x: on the segment
\* between two neighbouring points (ra, pa), (rb, pb) of q around x it is
\* pa + (pb - pa) * (x - ra) / (rb - ra)
Segments(q, x) ==
    {ab \in (DOMAIN q.recall) \X (DOMAIN q.recall) :
        /\ RLt(q.recall[ab[1]], q.recall[ab[2]])
        /\ RLe(q.recall[ab[1]], x)
        /\ RLe(x, q.recall[ab[2]])
        /\ \A h \in DOMAIN q.recall :
              ~(RLt(q.recall[ab[1]], q.recall[h]) /\ RLt(q.recall[h], q.recall[ab[2]]))}

Interpolated(q, x) ==
    CHOOSE v \in
        {RAdd(q.precision[ab[1]],
              RDiv(RMul(RSub(q.precision[ab[2]], q.precision[ab[1]]),
                        RSub(x, q.recall[ab[1]])),
                   RSub(q.recall[ab[2]], q.recall[ab[1]]))) : ab \in Segments(q, x)} :
        TRUE

\* the interpolated precisions of the input Plots at recall x
Column(x) == [k \in DOMAIN plots |-> Interpolated(plots[k], x)]

\* m is the arithmetic mean of the sequence col
IsMean(m, col) == RMul(Rat(Len(col)), m) = SumSeq(col)

\* the population variance of the sequence col about its mean m: the sum of
\* the squared deviations over the number of values
VarianceOf(m, col) ==
    Norm(SumSeq([k \in DOMAIN col |-> RMul(RSub(col[k], m), RSub(col[k], m))])[1],
         SumSeq([k \in DOMAIN col |-> RMul(RSub(col[k], m), RSub(col[k], m))])[2]
            * Len(col))

\* y is m + s * d where d >= 0 is the square root of v (s is -1 or 1)
IsOffByRoot(y, m, s, v) ==
    IF Len(y) = 2
    THEN /\ RLe(Zero, RMul(Rat(s), RSub(y, m)))
         /\ RMul(RSub(y, m), RSub(y, m)) = v
    ELSE y = <<m[1], m[2], s, v[1], v[2]>>

Aggregated == agg # <<>> /\ agg.error = ""

\* C5: the three curves mean_and_std returns share one recall sequence; at
\* every grid point the mean curve's precision is the arithmetic mean of the
\* input curves' precisions linearly interpolated at that recall, and the lower
\* and upper curves are that mean minus and plus the population standard
\* deviation of the same values; curves ([0,1],[1,0]) and ([0,1],[0.5,0.5]) on
\* the grid [0,0.5,1] give mean [0.75,0.5,0.25] and std [0.25,0,0.25].
C5_MeanAndStd ==
    Aggregated =>
        /\ agg.lower.recall = agg.mean.recall
        /\ agg.upper.recall = agg.mean.recall
        /\ \A x \in Range(Grid(interp)) :
              \E i \in DOMAIN agg.mean.recall :
                  /\ agg.mean.recall[i] = x
                  /\ IsMean(agg.mean.precision[i], Column(x))
                  /\ IsOffByRoot(agg.lower.precision[i], agg.mean.precision[i],
                                 -1, VarianceOf(agg.mean.precision[i], Column(x)))
                  /\ IsOffByRoot(agg.upper.precision[i], agg.mean.precision[i],
                                 1, VarianceOf(agg.mean.precision[i], Column(x)))
        /\ (/\ Len(plots) = 2
            /\ plots[1].recall = <<Zero, One>> /\ plots[1].precision = <<One, Zero>>
            /\ plots[2].recall = <<Zero, One>> /\ plots[2].precision = <<Half, Half>>
            /\ interp = [kind |-> "count", n |-> 3]) =>
              /\ agg.mean.recall = <<Zero, Half, One>>
              /\ agg.mean.precision = <<<<3, 4>>, Half, <<1, 4>>>>
              /\ agg.lower.precision = <<Half, Half, Zero>>
              /\ agg.upper.precision = <<One, Half, Half>>

\* the aggregate of curves ([0,1],[1,0]) and ([0,1],[0.5,0.5]) on three points
C5_Witness ==
    /\ Aggregated
    /\ Len(plots) = 2
    /\ plots[1].recall = <<One, Zero>> /\ plots[1].precision = <<Zero, One>>
    /\ plots[2].recall = <<One, Zero>> /\ plots[2].precision = <<Half, Half>>
    /\ interp = [kind |-> "count", n |-> 3]

Identical == \A k \in DOMAIN plots : plots[k] = plots[1]

C7_Independent ==
    [][/\ pred' = pred
       /\ bin_' = bin_
       /\ gt' = gt
       /\ \A w \in Workers :
            (pc[w] = "bin" /\ pc'[w] = "done") =>
                <<pred_eval'[w], bin_eval'[w], plot'[w]>> \in Evaluate(pred, bin_, gt)]_vars

\* one call has returned and the other, having repaired its own copies of an
\* all-zero prediction and an all-false binarised prediction, is still running
C7_Witness ==
    /\ pc["w1"] = "done"
    /\ pc["w2"] = "curve"
    /\ AllZero(pred)
    /\ ~AnyTrue(bin_)
    /\ Len(pred) = ParLen
    /\ lpred["w2"] # <<>>
    /\ lbin["w2"] # <<>>

====
